---- MODULE Spec2Model ----
(***************************************************************************)
(* State-machine model of PokerEngine (src/poker_agent.py) and of the      *)
(* driver loop of src/run_match.py: one hand of no-limit Texas Hold'em     *)
(* from blind posting to pot distribution.                                 *)
(***************************************************************************)
EXTENDS Integers, Sequences, FiniteSets, TLC

\* ---------------------------------------------------------------- bounds
\* Largest starting stack a seat is constructed with.
MaxStack == 12
\* Largest score the hand evaluator returns (lower is better).
MaxScore == 2
\* Longest action log (blind posts included) at which a call is still made.
MaxActions == 6

\* ------------------------------------------------------ program constants
small_blind == 5
big_blind == 10

\* Seat counts the engine is constructed with (len(player_ids) >= 2).
PlayerCounts == {2, 3}
\* Starting stacks offered to the constructor.
StackChoices == {0, 5, MaxStack}
\* Amounts a caller passes to apply_action.
AmountChoices == {-1, 0, 5, MaxStack + 1}
\* Seeds handed to start_hand.
DeckSeeds == {"seed-a", "seed-b"}
\* Identifiers of the seats; "ghost" is an id no seat carries.
PlayerIds == <<"p0", "p1", "p2", "p3">>
UnknownId == "ghost"
\* Action names a caller passes to apply_action; "muck" is not an action.
ActionNames == {"fold", "call", "check", "bet", "raise", "allin", "muck"}

\* ------------------------------------------------------------------ Phase
PRE_FLOP == "preflop"
FLOP == "flop"
TURN == "turn"
RIVER == "river"
SHOWDOWN == "showdown"
COMPLETED == "completed"
\* self.phase = None before the first start_hand
NoPhase == "none"

_phase_order == <<PRE_FLOP, FLOP, TURN, RIVER, SHOWDOWN, COMPLETED>>

\* list.index
IndexOf(seq, x) == CHOOSE i \in 1..Len(seq) : seq[i] = x

Min2(a, b) == IF a <= b THEN a ELSE b

\* max over a non-empty finite set of integers
MaxOf(S) == CHOOSE x \in S : \A y \in S : y <= x

\* ------------------------------------------------------------------- Deck
Ranks == <<"2", "3", "4", "5", "6", "7", "8", "9", "T", "J", "Q", "K", "A">>
Suits == <<"c", "d", "h", "s">>

DeckSize == Len(Ranks) * Len(Suits)

\* [r + s for r in ranks for s in suits]
standard_deck == [i \in 1..DeckSize |->
                    Ranks[((i - 1) \div 4) + 1] \o Suits[((i - 1) % 4) + 1]]

\* The permutation random.Random(seed).shuffle applies is a function of the
\* seed alone; each seed of DeckSeeds stands for one permutation of the deck.
SeedStride(seed) == IF seed = "seed-a" THEN 7 ELSE 11
SeedOffset(seed) == IF seed = "seed-a" THEN 3 ELSE 17

shuffle_with_seed(seed) ==
    [i \in 1..DeckSize |->
        standard_deck[((SeedStride(seed) * (i - 1) + SeedOffset(seed)) % DeckSize) + 1]]

\* list.pop(0) leaves the tail
PopFront(seq) == SubSeq(seq, 2, Len(seq))

\* ------------------------------------------------------------------ state
VARIABLES
    players,              \* seat index -> PlayerState
    phase,
    button_index,
    current_actor_index,
    deck,
    community_cards,
    pot_history,
    actions,
    total_pot,
    deck_seed,
    starting_stacks,      \* the constructor's argument, seat index -> stack
    phase_log             \* every value assigned to self.phase, with the
                          \* length of the action log at that moment

vars == <<players, phase, button_index, current_actor_index, deck,
          community_cards, pot_history, actions, total_pot, deck_seed,
          starting_stacks, phase_log>>

\* The fields of the engine that a hand mutates, as one value.
Engine == [players |-> players,
           phase |-> phase,
           current_actor_index |-> current_actor_index,
           deck |-> deck,
           community_cards |-> community_cards,
           pot_history |-> pot_history,
           actions |-> actions,
           total_pot |-> total_pot,
           phase_log |-> phase_log,
           raised |-> ""]

Becomes(e) ==
    /\ players' = e.players
    /\ phase' = e.phase
    /\ current_actor_index' = e.current_actor_index
    /\ deck' = e.deck
    /\ community_cards' = e.community_cards
    /\ pot_history' = e.pot_history
    /\ actions' = e.actions
    /\ total_pot' = e.total_pot
    /\ phase_log' = e.phase_log

NumPlayers(e) == Cardinality(DOMAIN e.players)
Seats(e) == 0..(NumPlayers(e) - 1)

PlayerState(pid, stk, i) ==
    [player_id |-> pid, stack |-> stk, hole_cards |-> <<>>, committed |-> 0,
     is_folded |-> FALSE, is_all_in |-> FALSE, seat |-> i]

Action(pid, act, amt) == [player_id |-> pid, action |-> act, amount |-> amt]

\* a phase assignment that starts the seats' committed afresh
SetPhase_resets_committed(e, ph) ==
    [e EXCEPT !.phase = ph,
              !.phase_log = Append(@, [phase |-> ph, n_actions |-> Len(e.actions)]),
              !.players = [i \in DOMAIN e.players |->
                              [e.players[i] EXCEPT !.committed = 0]]]

\* self.phase = ph
SetPhase(e, ph) ==
    [e EXCEPT !.phase = ph,
              !.phase_log = Append(@, [phase |-> ph, n_actions |-> Len(e.actions)])]

CanAct(p) == ~p.is_folded /\ ~p.is_all_in

\* ------------------------------------------------------------- start_hand
\* post_blind without the cap by the stack
post_blind_uncapped(e, idx, amount, label) ==
    LET p == e.players[idx]
        q == [p EXCEPT !.stack = @ - amount,
                       !.committed = @ + amount,
                       !.is_all_in = IF p.stack - amount = 0 THEN TRUE ELSE @]
    IN [e EXCEPT !.players[idx] = q,
                 !.total_pot = @ + amount,
                 !.actions = Append(@, Action(p.player_id, "post_" \o label, amount))]

\* post_blind that caps what leaves the stack but adds the nominal blind to
\* the pot
post_blind_pot_uncapped(e, idx, amount, label) ==
    LET p == e.players[idx]
        actual == Min2(p.stack, amount)
        q == [p EXCEPT !.stack = @ - actual,
                       !.committed = @ + actual,
                       !.is_all_in = IF p.stack - actual = 0 THEN TRUE ELSE @]
    IN [e EXCEPT !.players[idx] = q,
                 !.total_pot = @ + amount,
                 !.actions = Append(@, Action(p.player_id, "post_" \o label, actual))]

post_blind(e, idx, amount, label) ==
    LET p == e.players[idx]
        actual == Min2(p.stack, amount)
        q == [p EXCEPT !.stack = @ - actual,
                       !.committed = @ + actual,
                       !.is_all_in = IF p.stack - actual = 0 THEN TRUE ELSE @]
    IN [e EXCEPT !.players[idx] = q,
                 !.total_pot = @ + actual,
                 !.actions = Append(@, Action(p.player_id, "post_" \o label, actual))]

\* the k-th card of the deal, k = 0 .. 2n-1: two passes over the seats
\* starting left of the button, each card popped from the front of the deck
RECURSIVE DealHoleCards(_, _, _)
DealHoleCards(e, deal_start, k) ==
    LET n == NumPlayers(e)
        seat == (deal_start + (k % n)) % n
        card == Head(e.deck)
    IN IF k = 2 * n THEN e
       ELSE DealHoleCards(
              [e EXCEPT !.deck = PopFront(@),
                        !.players[seat].hole_cards = Append(@, card)],
              deal_start, k + 1)

\* for i in range(n): first seat from `start` on that can act, else `start`
FirstActor(e, start) ==
    LET n == NumPlayers(e)
        offs == {i \in 0..(n - 1) : CanAct(e.players[(start + i) % n])}
    IN IF offs = {} THEN start
       ELSE (start + (CHOOSE i \in offs : \A j \in offs : i <= j)) % n

start_hand(e, button, seed) ==
    LET n == NumPlayers(e)
        e0 == [e EXCEPT !.deck = shuffle_with_seed(seed),
                        !.community_cards = <<>>,
                        !.total_pot = 0,
                        !.actions = <<>>,
                        !.pot_history = <<>>,
                        !.players = [i \in Seats(e) |->
                                       [e.players[i] EXCEPT !.hole_cards = <<>>,
                                                            !.committed = 0,
                                                            !.is_folded = FALSE,
                                                            !.is_all_in = FALSE]]]
        sb == button
        bb == (button + 1) % n
        e1 == post_blind(e0, sb, small_blind, "sb")
        e2 == post_blind(e1, bb, big_blind, "bb")
        deal_start == (button + 1) % n
        e3 == DealHoleCards(e2, deal_start, 0)
        e4 == SetPhase(e3, PRE_FLOP)
    IN [e4 EXCEPT !.current_actor_index = FirstActor(e4, (bb + 1) % n)]

\* ---------------------------------------------------------------- helpers
\* index of the seat carrying player_id; -1 stands for the KeyError
find_player_index(e, player_id) ==
    LET hits == {i \in Seats(e) : e.players[i].player_id = player_id}
    IN IF hits = {} THEN -1 ELSE CHOOSE i \in hits : \A j \in hits : i <= j

\* max(pl.committed for pl in self.players)
Highest(e) == MaxOf({e.players[i].committed : i \in Seats(e)})

\* [p for p in self.players if not p.is_folded and not p.is_all_in]
ActiveSeats(e) == {i \in Seats(e) : CanAct(e.players[i])}

\* ---------------------------------------------------------- legal_actions
\* legal_actions offering raise already when the stack only covers the call
legal_actions_raise_on_equal(e, player_id) ==
    LET idx == find_player_index(e, player_id)
        p == e.players[idx]
        to_call == Highest(e) - p.committed
    IN IF p.is_folded \/ p.is_all_in \/ e.phase = COMPLETED THEN <<>>
       ELSE IF to_call > 0
            THEN <<"fold">>
                 \o (IF p.stack >= to_call THEN <<"call">> ELSE <<>>)
                 \o (IF p.stack >= to_call THEN <<"raise">> ELSE <<>>)
                 \o (IF p.stack > 0 THEN <<"allin">> ELSE <<>>)
            ELSE <<"check">>
                 \o (IF p.stack > 0 THEN <<"bet", "allin">> ELSE <<>>)

\* legal actions with fold offered whether or not there is anything to call
legal_actions_fold_always(e, player_id) ==
    LET idx == find_player_index(e, player_id)
        p == e.players[idx]
        to_call == Highest(e) - p.committed
    IN IF p.is_folded \/ p.is_all_in \/ e.phase = COMPLETED THEN <<>>
       ELSE IF to_call > 0
            THEN <<"fold">>
                 \o (IF p.stack >= to_call THEN <<"call">> ELSE <<>>)
                 \o (IF p.stack > to_call THEN <<"raise">> ELSE <<>>)
                 \o (IF p.stack > 0 THEN <<"allin">> ELSE <<>>)
            ELSE <<"fold", "check">>
                 \o (IF p.stack > 0 THEN <<"bet", "allin">> ELSE <<>>)

\* legal actions that leave a seat without chips nothing to answer a bet with
legal_actions_needs_chips(e, player_id) ==
    LET idx == find_player_index(e, player_id)
        p == e.players[idx]
        to_call == Highest(e) - p.committed
    IN IF p.is_folded \/ p.is_all_in \/ e.phase = COMPLETED THEN <<>>
       ELSE IF to_call > 0
            THEN IF p.stack = 0 THEN <<>>
                 ELSE <<"fold">>
                      \o (IF p.stack >= to_call THEN <<"call">> ELSE <<>>)
                      \o (IF p.stack > to_call THEN <<"raise">> ELSE <<>>)
                      \o <<"allin">>
            ELSE <<"check">>
                 \o (IF p.stack > 0 THEN <<"bet", "allin">> ELSE <<>>)

legal_actions(e, player_id) ==
    LET idx == find_player_index(e, player_id)
        p == e.players[idx]
        to_call == Highest(e) - p.committed
    IN IF p.is_folded \/ p.is_all_in \/ e.phase = COMPLETED THEN <<>>
       ELSE IF to_call > 0
            THEN <<"fold">>
                 \o (IF p.stack >= to_call THEN <<"call">> ELSE <<>>)
                 \o (IF p.stack > to_call THEN <<"raise">> ELSE <<>>)
                 \o (IF p.stack > 0 THEN <<"allin">> ELSE <<>>)
            ELSE <<"check">>
                 \o (IF p.stack > 0 THEN <<"bet", "allin">> ELSE <<>>)

InList(x, seq) == \E i \in 1..Len(seq) : seq[i] = x

\* ---------------------------------------------------------- _advance_turn
_advance_turn(e) ==
    LET n == NumPlayers(e)
        offs == {i \in 1..n : CanAct(e.players[(e.current_actor_index + i) % n])}
    IN IF ActiveSeats(e) = {} THEN e
       ELSE IF offs = {} THEN e
       ELSE [e EXCEPT !.current_actor_index =
                (@ + (CHOOSE i \in offs : \A j \in offs : i <= j)) % n]

\* --------------------------------------------- _is_betting_round_complete
\* the test with `highest` taken over the seats able to act only
_is_betting_round_complete_among_active(e) ==
    IF ActiveSeats(e) = {} THEN TRUE
    ELSE \A i \in ActiveSeats(e) :
            e.players[i].committed =
                MaxOf({e.players[j].committed : j \in ActiveSeats(e)})

\* a round that counts as complete only once no seat is left to act
_is_betting_round_complete_when_nobody_acts(e) == ActiveSeats(e) = {}

_is_betting_round_complete(e) ==
    IF ActiveSeats(e) = {} THEN TRUE
    ELSE \A i \in ActiveSeats(e) : e.players[i].committed = Highest(e)

\* ------------------------------------------------ evaluate_and_distribute
\* the seats of S in seat order, as a list
RECURSIVE SeatList(_)
SeatList(S) ==
    IF S = {} THEN <<>>
    ELSE LET m == CHOOSE i \in S : \A j \in S : i <= j
         IN <<m>> \o SeatList(S \ {m})

\* an unstable insertion: an element goes in front of the elements whose key
\* is equal
RECURSIVE InsertByKey_before_equal(_, _, _)
InsertByKey_before_equal(sorted, x, key) ==
    IF sorted = <<>> THEN <<x>>
    ELSE IF key[Head(sorted)] < key[x]
         THEN <<Head(sorted)>> \o InsertByKey_before_equal(Tail(sorted), x, key)
         ELSE <<x>> \o sorted

\* list.sort(key=...) is stable: an element goes behind every element whose
\* key is not greater
RECURSIVE InsertByKey(_, _, _)
InsertByKey(sorted, x, key) ==
    IF sorted = <<>> THEN <<x>>
    ELSE IF key[Head(sorted)] <= key[x]
         THEN <<Head(sorted)>> \o InsertByKey(Tail(sorted), x, key)
         ELSE <<x>> \o sorted

RECURSIVE StableSort(_, _)
StableSort(seq, key) ==
    IF seq = <<>> THEN <<>>
    ELSE InsertByKey(StableSort(SubSeq(seq, 1, Len(seq) - 1), key),
                     seq[Len(seq)], key)

\* for p in tied: p.stack += share
RECURSIVE PayShares(_, _, _)
PayShares(ps, tied, share) ==
    IF tied = <<>> THEN ps
    ELSE PayShares([ps EXCEPT ![Head(tied)].stack = @ + share], Tail(tied), share)

\* distribution without the branch for a single unfolded seat: the sole
\* survivor is scored and recorded like a showdown winner
evaluate_and_distribute_without_shortcut(e, score) ==
    LET active == SeatList({i \in Seats(e) : ~e.players[i].is_folded})
    IN IF Len(active) = 0
       THEN [e EXCEPT !.raised = "IndexError"]
       ELSE LET scores == StableSort(active, score)
                best_score == score[scores[1]]
                tied == SelectSeq(scores, LAMBDA i : score[i] = best_score)
                share == e.total_pot \div Len(tied)
                remainder == e.total_pot % Len(tied)
                paid == PayShares(e.players, tied, share)
            IN [e EXCEPT !.players = [paid EXCEPT ![tied[1]].stack = @ + remainder],
                         !.pot_history = Append(@,
                             [winners |-> [k \in 1..Len(tied) |-> e.players[tied[k]].player_id],
                              split |-> share,
                              remainder |-> remainder]),
                         !.total_pot = 0]

\* score[i] is what evaluator.evaluate(board, hole cards of seat i) returns
evaluate_and_distribute(e, score) ==
    LET active == SeatList({i \in Seats(e) : ~e.players[i].is_folded})
    IN IF Len(active) = 1
       THEN LET w == active[1]
            IN [e EXCEPT !.players[w].stack = @ + e.total_pot,
                         !.pot_history = Append(@, [winner |-> e.players[w].player_id,
                                                    amount |-> e.total_pot]),
                         !.total_pot = 0]
       ELSE IF Len(active) = 0
       THEN [e EXCEPT !.raised = "IndexError"]
       ELSE LET scores == StableSort(active, score)
                best_score == score[scores[1]]
                tied == SelectSeq(scores, LAMBDA i : score[i] = best_score)
                share == e.total_pot \div Len(tied)
                remainder == e.total_pot % Len(tied)
                paid == PayShares(e.players, tied, share)
            IN [e EXCEPT !.players = [paid EXCEPT ![tied[1]].stack = @ + remainder],
                         !.pot_history = Append(@,
                             [winners |-> [k \in 1..Len(tied) |-> e.players[tied[k]].player_id],
                              split |-> share,
                              remainder |-> remainder]),
                         !.total_pot = 0]

\* --------------------------------------------------------- _advance_phase
\* a street whose board cards are read from the deck but not removed from it
DealStreet_without_pop(e, k) ==
    LET d == PopFront(e.deck)
    IN [e EXCEPT !.deck = d,
                 !.community_cards = @ \o SubSeq(d, 1, k)]

\* _ = self.deck.pop(0); then k cards from the front onto the board
DealStreet(e, k) ==
    LET d == PopFront(e.deck)
    IN [e EXCEPT !.deck = SubSeq(d, k + 1, Len(d)),
                 !.community_cards = @ \o SubSeq(d, 1, k)]

\* the phase after next: an off-by-one in the index
NextPhase_skips_one(e) == _phase_order[IndexOf(_phase_order, e.phase) + 2]

NextPhase(e) == _phase_order[IndexOf(_phase_order, e.phase) + 1]

\* SHOWDOWN: distribute, then COMPLETED
Showdown(e, score) ==
    LET d == evaluate_and_distribute(e, score)
    IN IF d.raised # "" THEN d ELSE SetPhase(d, COMPLETED)

\* a street dealt without the burn
DealStreetNoBurn(e, k) ==
    [e EXCEPT !.deck = SubSeq(@, k + 1, Len(@)),
              !.community_cards = @ \o SubSeq(e.deck, 1, k)]

\* the fast-forward loop with the burns left out
RECURSIVE FastForward_no_burn(_, _)
FastForward_no_burn(e, score) ==
    IF e.phase \in {SHOWDOWN, COMPLETED} THEN e
    ELSE LET e1 == SetPhase(e, NextPhase(e))
         IN IF e1.phase = TURN THEN FastForward_no_burn(DealStreetNoBurn(e1, 1), score)
            ELSE IF e1.phase = RIVER THEN FastForward_no_burn(DealStreetNoBurn(e1, 1), score)
            ELSE IF e1.phase = SHOWDOWN THEN Showdown(e1, score)
            ELSE FastForward_no_burn(e1, score)

\* no fast-forward: the loop is never entered
FastForward_never(e, score) == e

\* while self.phase not in (SHOWDOWN, COMPLETED): ...
RECURSIVE FastForward(_, _)
FastForward(e, score) ==
    IF e.phase \in {SHOWDOWN, COMPLETED} THEN e
    ELSE LET e1 == SetPhase(e, NextPhase(e))
         IN IF e1.phase = TURN THEN FastForward(DealStreet(e1, 1), score)
            ELSE IF e1.phase = RIVER THEN FastForward(DealStreet(e1, 1), score)
            ELSE IF e1.phase = SHOWDOWN THEN Showdown(e1, score)
            ELSE FastForward(e1, score)

_advance_phase(e, score) ==
    LET e1 == SetPhase(e, NextPhase(e))
        e2 == IF e1.phase = FLOP THEN DealStreet(e1, 3)
              ELSE IF e1.phase = TURN THEN DealStreet(e1, 1)
              ELSE IF e1.phase = RIVER THEN DealStreet(e1, 1)
              ELSE e1
    IN IF e1.phase = SHOWDOWN THEN Showdown(e1, score)
       ELSE IF ActiveSeats(e2) = {} THEN FastForward(e2, score)
       ELSE e2

\* ----------------------------------------------------------- apply_action
\* Pay that forgets to add the payment to the pot
Pay_pot_forgotten(e, idx, pay) ==
    [e EXCEPT !.players[idx].stack = @ - pay,
              !.players[idx].committed = @ + pay,
              !.players[idx].is_all_in =
                    IF e.players[idx].stack - pay = 0 THEN TRUE ELSE @]

\* stack -= pay; committed += pay; total_pot += pay; all-in when stack == 0
Pay(e, idx, pay) ==
    [e EXCEPT !.players[idx].stack = @ - pay,
              !.players[idx].committed = @ + pay,
              !.players[idx].is_all_in =
                    IF e.players[idx].stack - pay = 0 THEN TRUE ELSE @,
              !.total_pot = @ + pay]

Log(e, player_id, act, amt) ==
    [e EXCEPT !.actions = Append(@, Action(player_id, act, amt))]

Accepted(e) == [e |-> e, err |-> ""]
Rejected(e, msg) == [e |-> e, err |-> msg]

\* Bet that moves the amount before it validates it
Bet_validated_late(e, idx, player_id, amount) ==
    LET moved == Log(Pay(e, idx, amount), player_id, "bet", amount)
    IN IF amount <= 0 \/ amount > e.players[idx].stack
       THEN Rejected(moved, "Invalid bet amount")
       ELSE Accepted(moved)

\* elif action == "bet": the amount is validated, then moved
Bet(e, idx, player_id, amount) ==
    IF amount <= 0 \/ amount > e.players[idx].stack
    THEN Rejected(e, "Invalid bet amount")
    ELSE Accepted(Log(Pay(e, idx, amount), player_id, "bet", amount))

\* a raise that moves the increment alone, without the call
Raise_increment_only(e, idx, player_id, amount) ==
    LET p == e.players[idx]
        pay == Min2(p.stack, amount)
    IN IF amount <= 0 \/ amount > p.stack
       THEN Rejected(e, "Invalid raise amount")
       ELSE Accepted(Log(Pay(e, idx, pay), player_id, "raise", pay))

\* elif action == "raise": the amount is validated, then to_call + amount is
\* moved, capped by the stack
Raise(e, idx, player_id, amount) ==
    LET p == e.players[idx]
        to_call == Highest(e) - p.committed
        pay == Min2(p.stack, to_call + amount)
    IN IF amount <= 0 \/ amount > p.stack
       THEN Rejected(e, "Invalid raise amount")
       ELSE Accepted(Log(Pay(e, idx, pay), player_id, "raise", pay))

\* the branch of the action, lines 217-260
Mutate(e, idx, player_id, action, amount) ==
    LET p == e.players[idx]
        to_call == Highest(e) - p.committed
    IN CASE action = "fold" ->
              Accepted(Log([e EXCEPT !.players[idx].is_folded = TRUE],
                           player_id, action, 0))
         [] action = "call" ->
              LET pay == Min2(p.stack, to_call)
              IN Accepted(Log(Pay(e, idx, pay), player_id, action, pay))
         [] action = "check" ->
              Accepted(Log(e, player_id, action, 0))
         [] action = "bet" -> Bet(e, idx, player_id, amount)
         [] action = "raise" -> Raise(e, idx, player_id, amount)
         [] action = "allin" ->
              LET pay == p.stack
              IN Accepted(Log([Pay(e, idx, pay) EXCEPT !.players[idx].is_all_in = TRUE],
                              player_id, "allin", pay))
         [] OTHER -> Accepted(e)

\* turn moves; end of round?
AfterAction(e, score) ==
    LET t == _advance_turn(e)
    IN IF _is_betting_round_complete(t) THEN _advance_phase(t, score) ELSE t

Return(e, status, detail) ==
    [e |-> e, ret |-> [status |-> status, detail |-> detail]]

apply_action(e, player_id, action, amount, score) ==
    LET idx == find_player_index(e, player_id)
    IN IF e.phase \in {NoPhase, COMPLETED} THEN Return(e, "error", "No active hand")
       ELSE IF idx = -1 THEN Return(e, "raise", "KeyError")
       ELSE IF e.players[idx].is_folded \/ e.players[idx].is_all_in
       THEN Return(e, "error", "Player cannot act")
       ELSE IF ~InList(action, legal_actions(e, player_id))
       THEN Return(e, "error", "Illegal action")
       ELSE LET m == Mutate(e, idx, player_id, action, amount)
                done == AfterAction(m.e, score)
            IN IF m.err # "" THEN Return(m.e, "error", m.err)
               ELSE IF done.raised # "" THEN Return(done, "raise", done.raised)
               ELSE Return(done, "ok", done.phase)

\* ------------------------------------------------------------------- Init
Init ==
    \E n \in PlayerCounts :
    \E st \in [0..(n - 1) -> StackChoices] :
        /\ players = [i \in 0..(n - 1) |-> PlayerState(PlayerIds[i + 1], st[i], i)]
        /\ starting_stacks = st
        /\ phase = NoPhase
        /\ button_index = 0
        /\ current_actor_index = 0
        /\ deck = <<>>
        /\ community_cards = <<>>
        /\ pot_history = <<>>
        /\ actions = <<>>
        /\ total_pot = 0
        /\ deck_seed = "none"
        /\ phase_log = <<>>

\* engine.start_hand(deck_seed=...), called once per hand by the driver
StartHand ==
    /\ phase = NoPhase
    /\ \E seed \in DeckSeeds :
        /\ Becomes(start_hand(Engine, button_index, seed))
        /\ deck_seed' = seed
    /\ UNCHANGED <<button_index, starting_stacks>>

\* ids a caller may name: the seats' ids and one unknown id
CallerIds == {players[i].player_id : i \in DOMAIN players} \cup {UnknownId}

\* amounts a caller passes with an action; only bet and raise read the amount
AmountsFor(act) == IF act \in {"bet", "raise"} THEN AmountChoices ELSE {0}

\* what the evaluator may return for the seats' hands
ScoreChoices == [DOMAIN players -> 1..MaxScore]
DefaultScore == [i \in DOMAIN players |-> 1]

\* the call reached the evaluator (a winners/split/remainder record was added)
EvaluatorCalled(e) ==
    /\ Len(e.pot_history) > Len(pot_history)
    /\ "winners" \in DOMAIN e.pot_history[Len(e.pot_history)]

\* engine.apply_action(player_id, action, amount) by any caller; the action
\* leaves the engine as the call leaves it, accepted or rejected
ApplyAction ==
    /\ Len(actions) < MaxActions
    /\ \E pid \in CallerIds, act \in ActionNames :
       \E amt \in AmountsFor(act) :
         LET probe == apply_action(Engine, pid, act, amt, DefaultScore)
         IN IF EvaluatorCalled(probe.e)
            THEN \E score \in ScoreChoices :
                    Becomes(apply_action(Engine, pid, act, amt, score).e)
            ELSE Becomes(probe.e)
    /\ UNCHANGED <<button_index, deck_seed, starting_stacks>>

\* engine.legal_actions(player_id): a query, nothing is assigned
LegalActions ==
    /\ \E i \in DOMAIN players :
         Len(legal_actions(Engine, players[i].player_id)) >= 0
    /\ UNCHANGED vars

\* the driver loop's skip: the seat to act is all-in or folded, so the loop
\* calls engine._advance_turn() and continues
DriverSkip ==
    /\ phase \notin {NoPhase, COMPLETED}
    /\ ~CanAct(players[current_actor_index])
    /\ Becomes(_advance_turn(Engine))
    /\ UNCHANGED <<button_index, deck_seed, starting_stacks>>

Next ==
    \/ StartHand
    \/ ApplyAction
    \/ LegalActions
    \/ DriverSkip

Spec == Init /\ [][Next]_vars

\* one pass of the driver's loop: the seat at current_actor_index is asked
\* for a decision, which may be any action name and amount, and the decision
\* is handed to apply_action
DriverAct ==
    /\ phase \notin {NoPhase, COMPLETED}
    /\ CanAct(players[current_actor_index])
    /\ \E act \in ActionNames :
       \E amt \in AmountsFor(act) :
         LET pid == players[current_actor_index].player_id
             probe == apply_action(Engine, pid, act, amt, DefaultScore)
         IN IF EvaluatorCalled(probe.e)
            THEN \E score \in ScoreChoices :
                    Becomes(apply_action(Engine, pid, act, amt, score).e)
            ELSE Becomes(probe.e)
    /\ UNCHANGED <<button_index, deck_seed, starting_stacks>>

\* the driver alone: every call is made for the seat whose turn it is
TurnNext ==
    \/ StartHand
    \/ DriverAct
    \/ DriverSkip

TurnSpec == Init /\ [][TurnNext]_vars

\* the loop's test of the current actor: not all-in and not folded, in a hand
\* that is not COMPLETED
ActorCanAct ==
    phase \notin {NoPhase, COMPLETED} /\ CanAct(players[current_actor_index])

\* while engine.phase != Phase.COMPLETED: the loop keeps taking its next
\* step. A skip is taken when it is possible; an action of the current actor
\* is accepted again and again unless the actor keeps being unable to act:
\* weak fairness of DriverAct with its enabling condition written as the
\* loop's own test (C21 checks that the test implies an accepted action
\* exists).
TurnFairness ==
    /\ WF_vars(DriverSkip)
    /\ ([]<>(~ActorCanAct) \/ []<><<DriverAct>>_vars)

TurnFairSpec == TurnSpec /\ TurnFairness

\* ======================================================= checked properties
Streets == {PRE_FLOP, FLOP, TURN, RIVER}

RECURSIVE SumOver(_, _)
SumOver(f, S) ==
    IF S = {} THEN 0
    ELSE LET i == CHOOSE j \in S : TRUE IN f[i] + SumOver(f, S \ {i})

SumStack == SumOver([i \in DOMAIN players |-> players[i].stack], DOMAIN players)
SumCommitted == SumOver([i \in DOMAIN players |-> players[i].committed], DOMAIN players)
\* sum(stack) + sum(committed) + total_pot before the blinds: nothing is
\* committed and the pot is empty
SumBeforeBlinds == SumOver(starting_stacks, DOMAIN starting_stacks)

LastAction == actions[Len(actions)]
ListSet(seq) == {seq[k] : k \in 1..Len(seq)}

\* C1 as stated: at hand completion sum(stack) + sum(committed) + total_pot
\* equals the value it had before the blinds were posted.
C1_ConservationWithCommitted ==
    phase = COMPLETED => SumStack + SumCommitted + total_pot = SumBeforeBlinds

\* C1 amended: at hand completion sum(stack) + total_pot equals the value it
\* had before the blinds were posted; committed is a record of what each seat
\* paid, kept after distribution, and is not part of the conserved sum.
C1_Conservation ==
    phase = COMPLETED => SumStack + total_pot = SumBeforeBlinds

\* a completed hand in which chips were paid in and paid out again
C1_Witness ==
    /\ phase = COMPLETED
    /\ SumCommitted > big_blind
    /\ \E i \in DOMAIN players : players[i].stack > starting_stacks[i]

\* C2: no seat ever has a negative stack, whatever calls were made.
C2_NoNegativeStack ==
    \A i \in DOMAIN players : players[i].stack >= 0

\* a raise whose to_call + amount exceeded the stack took the stack to zero,
\* next to a blind that was capped by a short stack
C2_Witness ==
    /\ phase # NoPhase
    /\ actions[1].amount < small_blind
    /\ LastAction.action = "raise"
    /\ \E i \in DOMAIN players :
         /\ players[i].player_id = LastAction.player_id
         /\ players[i].stack = 0
         /\ starting_stacks[i] > 0

\* every field of the engine a rejected call could have touched
Ledger(e) == <<e.players, e.total_pot, e.phase, e.current_actor_index, e.deck,
               e.community_cards, e.actions, e.pot_history>>

\* C3: a call of apply_action that returns an error leaves stacks, committed,
\* flags, pot, phase, current actor, deck, board and action log as they were.
C3_RejectionLeavesState ==
    \A pid \in CallerIds, act \in ActionNames :
    \A amt \in AmountsFor(act) :
        LET r == apply_action(Engine, pid, act, amt, DefaultScore)
        IN r.ret.status = "error" => Ledger(r.e) = Ledger(Engine)

RejectedWith(msg) ==
    \E pid \in CallerIds, act \in ActionNames :
    \E amt \in AmountsFor(act) :
        LET r == apply_action(Engine, pid, act, amt, DefaultScore)
        IN r.ret.status = "error" /\ r.ret.detail = msg

\* a hand in play in which calls are rejected for each of the reasons
C3_Witness ==
    /\ phase \in Streets
    /\ RejectedWith("Player cannot act")
    /\ RejectedWith("Illegal action")
    /\ RejectedWith("Invalid bet amount")
    /\ Len(actions) > 2

\* the set C4 specifies for seat i
SpecifiedLegal(i) ==
    LET p == players[i]
        to_call == MaxOf({players[j].committed : j \in DOMAIN players}) - p.committed
    IN IF p.is_folded \/ p.is_all_in \/ phase = COMPLETED THEN {}
       ELSE IF to_call > 0
            THEN {"fold"}
                 \cup {a \in {"call"} : p.stack >= to_call}
                 \cup {a \in {"raise"} : p.stack > to_call}
                 \cup {a \in {"allin"} : p.stack > 0}
            ELSE {"check"} \cup {a \in {"bet", "allin"} : p.stack > 0}

\* C4: legal_actions(seat) is exactly the specified set, lists each action
\* once, and never offers check while money is owed.
C4_LegalActionsExact ==
    \A i \in DOMAIN players :
        LET got == legal_actions(Engine, players[i].player_id)
            to_call == Highest(Engine) - players[i].committed
        IN /\ ListSet(got) = SpecifiedLegal(i)
           /\ Len(got) = Cardinality(ListSet(got))
           /\ to_call > 0 => "check" \notin ListSet(got)

\* a hand in play in which one seat can exactly call (so raise is withheld),
\* one owes more than it has (so call is withheld) and one is all-in
C4_Witness ==
    /\ phase \in Streets
    /\ \E i \in DOMAIN players :
         legal_actions(Engine, players[i].player_id) = <<"fold", "call", "allin">>
    /\ \E i \in DOMAIN players :
         legal_actions(Engine, players[i].player_id) = <<"fold", "allin">>
    /\ \E i \in DOMAIN players :
         /\ players[i].is_all_in
         /\ legal_actions(Engine, players[i].player_id) = <<>>

\* C5 as stated: actions are applied strictly in turn order; a call made for
\* a seat other than the current actor is not applied and changes nothing.
C5_OnlyCurrentActorApplied ==
    phase \in Streets =>
        \A i \in DOMAIN players, act \in ActionNames :
        \A amt \in AmountsFor(act) :
            i # current_actor_index =>
                Ledger(apply_action(Engine, players[i].player_id, act, amt,
                                    DefaultScore).e) = Ledger(Engine)

\* C6 as stated: while a hand awaits action, the seat at current_actor_index
\* is neither folded nor all-in.
C6_PointerEligible ==
    phase \in Streets => CanAct(players[current_actor_index])

\* only the two blind posts are in the log and every seat is all-in
AllInByBlinds ==
    /\ phase # NoPhase
    /\ Len(actions) = 2
    /\ \A i \in DOMAIN players : players[i].is_all_in

\* C7 as stated: when the blinds leave every seat all-in, the hand does not
\* wait in PRE_FLOP; it is COMPLETED with five board cards and the pot paid.
C7_AllInByBlindsCompletes ==
    AllInByBlinds =>
        /\ phase = COMPLETED
        /\ Len(community_cards) = 5
        /\ total_pot = 0

\* the phase has entered FLOP, TURN or RIVER at some point of the hand
EnteredPostFlop == \E k \in 1..Len(phase_log) : phase_log[k].phase \in {FLOP, TURN, RIVER}

\* C8 as stated: with at most one seat neither folded nor all-in after a
\* transition into FLOP, TURN or RIVER, the engine never waits for input.
C8_NoWaitWithAtMostOneActor ==
    phase \in {FLOP, TURN, RIVER} => Cardinality(ActiveSeats(Engine)) >= 2

\* C8 amended: after a transition into FLOP, TURN or RIVER with no seat that
\* is neither folded nor all-in, the engine does not wait for input: the same
\* call runs through the remaining phases, deals every street, and leaves the
\* hand COMPLETED with the pot distributed.
C8_FastForwardWhenNobodyCanAct ==
    (EnteredPostFlop /\ ActiveSeats(Engine) = {}) =>
        /\ phase = COMPLETED
        /\ Len(community_cards) = 5
        /\ total_pot = 0
        /\ Len(pot_history) = 1

\* FLOP through COMPLETED were all assigned within one call, made preflop
FastForwardedFromPreflop ==
    /\ Len(phase_log) = 6
    /\ \A k \in 2..6 : phase_log[k].n_actions = phase_log[2].n_actions

\* FLOP, TURN, RIVER and SHOWDOWN were each entered by a later action
PlayedStreetByStreet ==
    /\ Len(phase_log) = 6
    /\ \A k \in 2..4 : phase_log[k].n_actions < phase_log[k + 1].n_actions

\* a hand that was fast-forwarded from the flop on: nobody could act
C8_Witness ==
    /\ phase = COMPLETED
    /\ ActiveSeats(Engine) = {}
    /\ FastForwardedFromPreflop
    /\ Cardinality({i \in DOMAIN players : ~players[i].is_folded}) >= 2

\* the board and the rest of the deck as the street-by-street deal takes them
\* from the shuffled deck: 2n hole cards, then burn + 3, burn + 1, burn + 1
ExpectedBoard ==
    LET d == shuffle_with_seed(deck_seed)
        n == Cardinality(DOMAIN players)
    IN <<d[2 * n + 2], d[2 * n + 3], d[2 * n + 4], d[2 * n + 6], d[2 * n + 8]>>

ExpectedRest ==
    LET d == shuffle_with_seed(deck_seed)
        n == Cardinality(DOMAIN players)
    IN SubSeq(d, 2 * n + 9, DeckSize)

\* C9: at COMPLETED the five board cards and the remaining deck are the ones
\* the street-by-street deal yields for that deck and seat count, whether the
\* hand was played street by street or fast-forwarded.
C9_SameBoardOnBothPaths ==
    phase = COMPLETED =>
        /\ community_cards = ExpectedBoard
        /\ deck = ExpectedRest

\* a hand fast-forwarded after every seat went all-in preflop
C9_Witness ==
    /\ phase = COMPLETED
    /\ FastForwardedFromPreflop
    /\ \A i \in DOMAIN players : players[i].is_all_in
    /\ Len(actions) > 2

\* C10: the phase only ever moves to its immediate successor, also during a
\* fast-forward, and the board has 0, 3, 4, 5, 5 cards in PRE_FLOP, FLOP,
\* TURN, RIVER, COMPLETED.
C10_PhaseOrderAndBoardSize ==
    /\ Len(phase_log) <= Len(_phase_order)
    /\ \A k \in 1..Len(phase_log) : phase_log[k].phase = _phase_order[k]
    /\ phase = IF phase_log = <<>> THEN NoPhase ELSE phase_log[Len(phase_log)].phase
    /\ phase = PRE_FLOP => Len(community_cards) = 0
    /\ phase = FLOP => Len(community_cards) = 3
    /\ phase = TURN => Len(community_cards) = 4
    /\ phase = RIVER => Len(community_cards) = 5
    /\ phase = COMPLETED => Len(community_cards) = 5
    /\ phase # SHOWDOWN

\* a hand played to the end one street at a time
C10_Witness ==
    /\ phase = COMPLETED
    /\ PlayedStreetByStreet

\* the round-completion test as the claims word it, over a ledger ps
NobodyCanAct(ps) == \A i \in DOMAIN ps : ps[i].is_folded \/ ps[i].is_all_in

AllActiveAtMaximum(ps) ==
    \A i \in DOMAIN ps :
        (~ps[i].is_folded /\ ~ps[i].is_all_in) =>
            \A j \in DOMAIN ps : ps[j].committed <= ps[i].committed

\* C11: after every successful apply_action the phase has advanced if and
\* only if, in the resulting state, no seat is both unfolded and not all-in
\* or every such seat has committed equal to the maximum over all seats.
C11_PhaseAdvancesIffRoundComplete ==
    \A i \in DOMAIN players, act \in ActionNames :
    \A amt \in AmountsFor(act) :
        LET r == apply_action(Engine, players[i].player_id, act, amt, DefaultScore)
        IN r.ret.status = "ok" =>
              ((r.e.phase # phase) <=>
                   (NobodyCanAct(r.e.players) \/ AllActiveAtMaximum(r.e.players)))

\* on the flop, entered by an action that completed the preflop round, an
\* action was accepted that left the round open
C11_Witness ==
    /\ phase = FLOP
    /\ Len(actions) > phase_log[2].n_actions
    /\ ~AllActiveAtMaximum(players)

\* the seats able to act all have the same committed value
ActiveShareCommitted(ps) ==
    \A i, j \in DOMAIN ps :
        (~ps[i].is_folded /\ ~ps[i].is_all_in /\ ~ps[j].is_folded /\ ~ps[j].is_all_in)
            => ps[i].committed = ps[j].committed

\* C12 as stated: the round is judged complete if and only if all non-folded,
\* non-all-in seats share the same committed value, or no such seat remains.
C12_CompleteIffActiveShare ==
    _is_betting_round_complete(Engine) <=>
        (NobodyCanAct(players) \/ ActiveShareCommitted(players))

\* C12 amended: the round is judged complete if and only if every non-folded,
\* non-all-in seat has committed equal to the maximum committed over all
\* seats (an all-in seat's larger commitment included), or no such seat remains.
C12_CompleteIffActiveAtMaximum ==
    _is_betting_round_complete(Engine) <=>
        (NobodyCanAct(players) \/ AllActiveAtMaximum(players))

\* two seats able to act share a committed value that an all-in seat exceeds,
\* and the round is judged open
C12_Witness ==
    /\ phase \in Streets
    /\ Cardinality(ActiveSeats(Engine)) = 2
    /\ ActiveShareCommitted(players)
    /\ \E j \in DOMAIN players :
         /\ players[j].is_all_in
         /\ \A i \in ActiveSeats(Engine) : players[i].committed < players[j].committed
    /\ ~_is_betting_round_complete(Engine)

\* the unfolded seats of a ledger and, among them, those with the best score
Unfolded(ps) == {i \in DOMAIN ps : ~ps[i].is_folded}
CoWinners(ps, score) ==
    {i \in Unfolded(ps) : \A j \in Unfolded(ps) : score[i] <= score[j]}

\* what C13 says seat i is paid from pot
TieShare(ps, score, pot, i) ==
    LET W == CoWinners(ps, score)
        k == Cardinality(W)
    IN IF i \notin W THEN 0
       ELSE (pot \div k)
            + (IF \A j \in W : i <= j THEN pot % k ELSE 0)

\* C13: whenever a call ends in a showdown between two or more unfolded
\* seats, whatever the scores, each of the k seats with the minimal score is
\* paid pot div k, the lowest-indexed of them also pot mod k, nobody else's
\* stack changes, and the pot becomes 0.
C13_TieSplitWithRemainder ==
    \A i \in DOMAIN players, act \in ActionNames :
    \A amt \in AmountsFor(act) :
        LET pid == players[i].player_id
            \* whether the call ends in a showdown does not depend on the scores
            probe == apply_action(Engine, pid, act, amt, DefaultScore)
            \* the ledger and the pot as the showdown finds them
            before == Mutate(Engine, i, pid, act, amt).e
        IN (probe.ret.status = "ok" /\ EvaluatorCalled(probe.e)) =>
              \A score \in ScoreChoices :
                 LET r == apply_action(Engine, pid, act, amt, score)
                 IN /\ r.ret.status = "ok"
                    /\ \A j \in DOMAIN players :
                          r.e.players[j].stack =
                              before.players[j].stack
                              + TieShare(before.players, score, before.total_pot, j)
                    /\ r.e.total_pot = 0

\* a completed hand whose pot was split three ways with a remainder
C13_Witness ==
    /\ phase = COMPLETED
    /\ Len(pot_history) = 1
    /\ "winners" \in DOMAIN pot_history[1]
    /\ Len(pot_history[1].winners) = 3
    /\ pot_history[1].remainder > 0
    /\ players[0].stack = starting_stacks[0] - players[0].committed
                          + pot_history[1].split + pot_history[1].remainder

\* the sum of the amounts of the first k log records, all of them or those of
\* one player
RECURSIVE PaidUpTo(_, _)
PaidUpTo(k, who) ==
    IF k = 0 THEN 0
    ELSE (IF who = "" \/ actions[k].player_id = who THEN actions[k].amount ELSE 0)
         + PaidUpTo(k - 1, who)

\* the position of the last fold in the log
LastFold == CHOOSE k \in 1..Len(actions) :
                /\ actions[k].action = "fold"
                /\ \A m \in (k + 1)..Len(actions) : actions[m].action # "fold"

\* C14: when all seats but one have folded, at hand completion that seat has
\* been paid the whole pot without an evaluator call: its stack is its stack
\* at the moment of the last fold plus the pot at that moment, nobody else is
\* paid, and the pot history holds one winner/amount record.
C14_SingleWinnerByFold ==
    (phase = COMPLETED /\ Cardinality(Unfolded(players)) = 1) =>
        LET w == CHOOSE i \in DOMAIN players : ~players[i].is_folded
            pid == players[w].player_id
        IN /\ players[w].stack =
                 (starting_stacks[w] - PaidUpTo(LastFold, pid)) + PaidUpTo(LastFold, "")
           /\ \A j \in DOMAIN players \ {w} :
                 players[j].stack = starting_stacks[j] - players[j].committed
           /\ pot_history = <<[winner |-> pid, amount |-> PaidUpTo(Len(actions), "")]>>
           /\ total_pot = 0

\* heads-up with equal stacks: the small blind folded preflop and the big
\* blind ended the hand with small_blind + big_blind more than it had left
C14_Witness ==
    /\ phase = COMPLETED
    /\ Cardinality(DOMAIN players) = 2
    /\ starting_stacks[0] = starting_stacks[1]
    /\ actions[3] = Action("p0", "fold", 0)
    /\ players[1].stack = (starting_stacks[1] - big_blind) + small_blind + big_blind

\* the hole cards of seats i, i+1, ... in one sequence
RECURSIVE HoleCardsFrom(_, _)
HoleCardsFrom(ps, i) ==
    IF i \notin DOMAIN ps THEN <<>>
    ELSE ps[i].hole_cards \o HoleCardsFrom(ps, i + 1)

NoDuplicates(seq) == Cardinality(ListSet(seq)) = Len(seq)

\* rest is what is left of full after cards were taken from its front
IsSuffix(rest, full) ==
    /\ Len(rest) <= Len(full)
    /\ rest = SubSeq(full, Len(full) - Len(rest) + 1, Len(full))

\* C15: in every state of a hand the hole cards, the community cards and the
\* remaining deck contain no card twice; the deck is what is left of the
\* shuffled deck after cards were taken from its front, every dealt card is
\* one of the cards taken, and no step of a hand makes the deck longer: the
\* deck after the step is what is left of the deck before it.
C15_NoCardDealtTwice ==
    /\ [](phase # NoPhase =>
            LET shuffled == shuffle_with_seed(deck_seed)
                dealt == HoleCardsFrom(players, 0) \o community_cards
                taken == SubSeq(shuffled, 1, Len(shuffled) - Len(deck))
            IN /\ NoDuplicates(dealt \o deck)
               /\ IsSuffix(deck, shuffled)
               /\ ListSet(dealt) \subseteq ListSet(taken))
    /\ [][phase # NoPhase => IsSuffix(deck', deck)]_vars

\* three seats, a hand run to the river: six hole cards, five board cards and
\* three burns have left the deck
C15_Witness ==
    /\ phase = COMPLETED
    /\ Cardinality(DOMAIN players) = 3
    /\ \A i \in DOMAIN players : Len(players[i].hole_cards) = 2
    /\ Len(community_cards) = 5
    /\ Len(deck) = DeckSize - 14

\* C16: a seat's committed is the sum of everything it has moved since the
\* blinds, over all streets, and in PRE_FLOP, FLOP, TURN and RIVER the pot is
\* the sum of committed; no step of a hand lowers a committed: a step that
\* logs an action adds the logged amount to the actor's committed and leaves
\* the others' as they are, whether or not the phase changes in that step,
\* and a step that logs nothing leaves every committed as it is.
C16_CommittedCumulative ==
    /\ [](phase # NoPhase =>
            /\ \A k \in 1..Len(actions) : actions[k].amount >= 0
            /\ \A i \in DOMAIN players :
                  players[i].committed = PaidUpTo(Len(actions), players[i].player_id)
            /\ phase \in Streets => total_pot = SumCommitted)
    /\ [][phase # NoPhase =>
            \A i \in DOMAIN players :
               /\ players'[i].committed >= players[i].committed
               /\ players'[i].committed =
                     players[i].committed
                     + (IF /\ Len(actions') = Len(actions) + 1
                           /\ actions'[Len(actions')].player_id = players[i].player_id
                        THEN actions'[Len(actions')].amount
                        ELSE 0)]_vars

\* on the flop a seat has gone all-in: its committed is what it paid preflop
\* plus what it paid on the flop
C16_Witness ==
    /\ phase = FLOP
    /\ Len(phase_log) = 2
    /\ Len(actions) > phase_log[2].n_actions
    /\ LastAction.action = "allin"
    /\ LastAction.amount > 0
    /\ \E i \in DOMAIN players :
          /\ players[i].player_id = LastAction.player_id
          /\ players[i].committed = big_blind + LastAction.amount

\* C17: whenever raise is among a seat's legal actions, a raise by any amount
\* from 1 to its stack is accepted, also when to_call + amount exceeds the
\* stack; it moves min(stack, to_call + amount) from the stack to committed
\* and the pot, the seat is all-in afterwards iff nothing is left of its
\* stack, the log records the amount moved, and the seat's committed ends
\* strictly above the previous maximum of all seats.
C17_RaiseSemantics ==
    \A i \in DOMAIN players :
        (phase \in Streets /\ InList("raise", legal_actions(Engine, players[i].player_id))) =>
            \A amount \in 1..players[i].stack :
                LET p == players[i]
                    to_call == Highest(Engine) - p.committed
                    pay == Min2(p.stack, to_call + amount)
                    moved == Mutate(Engine, i, p.player_id, "raise", amount)
                    r == apply_action(Engine, p.player_id, "raise", amount, DefaultScore)
                IN /\ r.ret.status = "ok"
                   /\ moved.err = ""
                   /\ moved.e.players[i].stack = p.stack - pay
                   /\ moved.e.total_pot = total_pot + pay
                   /\ \A j \in DOMAIN players \ {i} : moved.e.players[j] = players[j]
                   /\ r.e.players[i].committed = p.committed + pay
                   /\ r.e.players[i].is_all_in <=> (p.stack - pay = 0)
                   /\ r.e.actions = Append(actions, Action(p.player_id, "raise", pay))
                   /\ r.e.players[i].committed > Highest(Engine)
                   /\ r.e.phase # COMPLETED =>
                         /\ r.e.players[i].stack = p.stack - pay
                         /\ r.e.total_pot = total_pot + pay

\* a raise recorded with less than the call it answered plus the smallest
\* increment a caller passes here: the stack capped it, and the seat is all-in
C17_Witness ==
    /\ phase \in Streets
    /\ Len(actions) > 2
    /\ LastAction.action = "raise"
    /\ \E i \in DOMAIN players :
          /\ players[i].player_id = LastAction.player_id
          /\ LastAction.amount = starting_stacks[i]
          /\ players[i].committed = LastAction.amount
          /\ players[i].is_all_in
          /\ LastAction.amount < big_blind + small_blind

\* C18: within a hand the stacks and the pot together always hold the chips
\* the seats had before the blinds, and once the hand is COMPLETED the pot is
\* 0 and the stacks alone hold them.
C18_ChipsConserved ==
    /\ SumStack + total_pot = SumBeforeBlinds
    /\ total_pot >= 0
    /\ phase = COMPLETED => (total_pot = 0 /\ SumStack = SumBeforeBlinds)
    /\ phase = NoPhase => total_pot = 0

\* a hand in play after a call was rejected and another accepted: chips in
\* the pot beyond the blinds, stacks short of the original total
C18_Witness ==
    /\ phase \in Streets
    /\ total_pot > small_blind + big_blind
    /\ SumStack < SumBeforeBlinds
    /\ RejectedWith("Illegal action")

\* the seats the pot history names as paid
PaidSeats ==
    LET rec == pot_history[1]
    IN IF "winners" \in DOMAIN rec
       THEN {i \in DOMAIN players : players[i].player_id \in ListSet(rec.winners)}
       ELSE {i \in DOMAIN players : players[i].player_id = rec.winner}

\* C19: in every state after start_hand some seat is unfolded and some
\* unfolded seat holds the maximal committed; fold is offered only to a seat
\* that has something to call; distribution never meets an empty set of
\* unfolded seats, and a completed hand has paid its pot once, to unfolded
\* seats.
C19_AlwaysAContender ==
    phase # NoPhase =>
        /\ Unfolded(players) # {}
        /\ \E i \in Unfolded(players) : players[i].committed = Highest(Engine)
        /\ \A i \in DOMAIN players :
              InList("fold", legal_actions(Engine, players[i].player_id)) =>
                  Highest(Engine) - players[i].committed > 0
        /\ phase = COMPLETED =>
              /\ Len(pot_history) = 1
              /\ PaidSeats # {}
              /\ PaidSeats \subseteq Unfolded(players)
              /\ total_pot = 0

\* three seats: two have folded to an all-in, the third is the contender
\* and took the pot
C19_Witness ==
    /\ phase = COMPLETED
    /\ Cardinality(DOMAIN players) = 3
    /\ Cardinality(Unfolded(players)) = 1
    /\ \E i \in Unfolded(players) :
          /\ players[i].is_all_in
          /\ players[i].committed = Highest(Engine)
          /\ PaidSeats = {i}

\* the first phase assignment made with k records in the log
FirstPhaseLogAt(k) ==
    CHOOSE j \in 1..Len(phase_log) :
        /\ phase_log[j].n_actions = k
        /\ \A m \in 1..(j - 1) : phase_log[m].n_actions # k

\* C20: when every action is taken by the current actor, each check in the
\* log is followed by a phase assignment made by the same call (the log was
\* as long then as the check left it); a check made on FLOP, TURN or RIVER
\* is the first record of its street, so the street ends before another seat
\* has acted on it.
C20_CheckEndsRound ==
    \A k \in 1..Len(actions) :
        actions[k].action = "check" =>
            /\ \E j \in 1..Len(phase_log) : phase_log[j].n_actions = k
            /\ LET j == FirstPhaseLogAt(k)
               IN /\ j > 1
                  /\ phase_log[j].phase = _phase_order[IndexOf(_phase_order, phase_log[j - 1].phase) + 1]
                  /\ phase_log[j - 1].phase \in {FLOP, TURN, RIVER} =>
                        phase_log[j - 1].n_actions = k - 1

\* the flop ended on the first actor's check although another seat could
\* still act
C20_Witness ==
    /\ phase = TURN
    /\ Len(phase_log) = 3
    /\ LastAction.action = "check"
    /\ Len(actions) = phase_log[2].n_actions + 1
    /\ Cardinality({i \in DOMAIN players : CanAct(players[i])}) >= 2

\* a hand is in play and some seat is able to act
HandInPlay == phase \in Streets /\ ~NobodyCanAct(players)

\* some action of the current actor is accepted
ActorCanProgress ==
    \E act \in ActionNames : \E amt \in AmountsFor(act) :
        apply_action(Engine, players[current_actor_index].player_id,
                     act, amt, DefaultScore).ret.status = "ok"

\* what is left to happen in a hand: chips that can still be moved, seats
\* that can still fold, phases still to come
RemainingOf(e) ==
    SumOver([i \in DOMAIN e.players |-> e.players[i].stack], DOMAIN e.players)
    + Cardinality(Unfolded(e.players))
    + (Len(_phase_order) - IndexOf(_phase_order, e.phase))

Remaining == RemainingOf(Engine)

\* every action of the current actor that is accepted, with any amount up to
\* its stack, completes the hand or leaves strictly less to happen
AcceptedActionsProgress ==
    \A act \in ActionNames : \A amt \in 0..players[current_actor_index].stack :
        LET r == apply_action(Engine, players[current_actor_index].player_id,
                              act, amt, DefaultScore)
        IN r.ret.status = "ok" =>
              (r.e.phase = COMPLETED \/ RemainingOf(r.e) < Remaining)

\* C21: when only the current actor acts and the driver keeps going, a hand
\* in which some seat is able to act always has a current actor that is able
\* to act, has a legal action and has an action that is accepted; every step
\* of such a hand completes it or leaves strictly less to happen, so no run
\* of accepted actions goes on for ever; and the hand reaches COMPLETED.
C21_EveryHandTerminates ==
    /\ [](HandInPlay =>
            /\ ActorCanAct
            /\ legal_actions(Engine, players[current_actor_index].player_id) # <<>>
            /\ ActorCanProgress
            /\ AcceptedActionsProgress
            /\ Remaining >= 0)
    /\ [][HandInPlay => (phase' = COMPLETED \/ Remaining' < Remaining)]_vars
    /\ (HandInPlay ~> (phase = COMPLETED))

\* three seats with chips behind the blinds: two calls, then a check on each
\* street took the hand through every phase to COMPLETED
C21_Witness ==
    /\ phase = COMPLETED
    /\ Cardinality(DOMAIN players) = 3
    /\ \A i \in DOMAIN players : starting_stacks[i] > big_blind
    /\ Len(phase_log) = Len(_phase_order)
    /\ \E k \in 3..Len(actions) : actions[k].action = "call"
    /\ LastAction.action = "check"
====
